---------------------------- MODULE Spec2Model ----------------------------
(***************************************************************************)
(* HC-12 morse transceiver (src/src/main.cpp).                             *)
(*                                                                         *)
(* Two devices run the same sketch and are joined by a radio link: what    *)
(* one device writes with morse.println() is appended, in order, to the    *)
(* receive buffer of the other.  Every program variable is a function of   *)
(* the device.  pc[d] is the position of device d inside loop():           *)
(*                                                                         *)
(*   "idle"     top of loop(), line 238                                    *)
(*   "reading"  readStringUntil() of line 243, waiting for the '\n'        *)
(*   "decoded"  line 249, the line has been read and parsed                *)
(*   "blinkOn"  blink(), inside the delay of line 152/154                  *)
(*   "blinkGap" blink(), inside delay(morseInterval) of line 159           *)
(*   "hold"     talkMorse(), inside the while loop of line 180             *)
(*   "beep"     talkMorse(), inside delay(100) of line 186                 *)
(*   "debounce" talkMorse(), inside delay(50) of line 192                  *)
(*   "polled"   line 256, talkMorse() has returned into morseToSend        *)
(*                                                                         *)
(* before loop(), inside setup():                                          *)
(*                                                                         *)
(*   "reset"    before line 211                                            *)
(*   "hc12"     line 224, setupHcTestMode() has returned                   *)
(*   "atMode"   setupHc12(), inside delay(1000) of line 121                *)
(*   "atSent"   setupHc12(), inside delay(100) of line 124                 *)
(*   "atReading" readStringUntil() of line 127, waiting for the '\n'       *)
(*   "setupLoop", "beepHigh", "beepLow"                                    *)
(*              beep(), at the loop test and inside its two delays         *)
(*                                                                         *)
(* and in a build with the self-test of lines 54-75:                       *)
(*                                                                         *)
(*   "jigOn"    testBuzzerLedAndButton(), inside delay(500) of line 60     *)
(*   "jigOff"   testBuzzerLedAndButton(), inside delay(500) of line 63     *)
(*   "main"     line 240, loopBuzzerLedAndButtonTest() has returned        *)
(*                                                                         *)
(* Time is tracked only where the sketch reads it: from the millis() call  *)
(* of line 178 (press detection) to the one of line 194.  elapsed[d] is    *)
(* the number of milliseconds that have really passed since line 178.      *)
(***************************************************************************)
EXTENDS Integers, Sequences, FiniteSets, TLC

Dev == {"A", "B"}

Peer(d) == IF d = "A" THEN "B" ELSE "A"

\* ------------------------------------------------------------ bounds
\* presses the operator of device A makes
MaxPresses == 2
\* presses the operator of device B makes
MaxPeerPresses == 1
\* bursts of bytes that are not the peer's and reach one device while loop()
\* runs: foreign bytes and late pieces of the reply of its radio module
MaxNoise == 1
\* characters a String has room for in the memory of the device; more than
\* the longest line the bursts above can make
MaxLine == 20

PressBudget(d) == IF d = "A" THEN MaxPresses ELSE MaxPeerPresses

\* ------------------------------------------------------------ constants
LOW == "LOW"
HIGH == "HIGH"

\* unsigned long is 32 bits wide; a value is kept as two 16-bit halves,
\* [hi, lo] standing for hi * 2^16 + lo
HalfBits == 16
Half == 2 ^ HalfBits

\* the unsigned long with value n, for 0 <= n < 2^31
U32(n) == [hi |-> n \div Half, lo |-> n % Half]

\* unsigned long addition: the carry out of the high half is lost
UAdd(a, b) ==
  [hi |-> (a.hi + b.hi + (a.lo + b.lo) \div Half) % Half,
   lo |-> (a.lo + b.lo) % Half]

\* a subtraction that saturates at 0 instead of wrapping
USubSaturating(a, b) ==
  IF a.hi < b.hi \/ (a.hi = b.hi /\ a.lo < b.lo)
    THEN [hi |-> 0, lo |-> 0]
    ELSE [hi |-> a.hi - b.hi - (IF a.lo < b.lo THEN 1 ELSE 0),
          lo |-> (a.lo - b.lo) % Half]

\* unsigned long subtraction, lines 181 and 194: the borrow out of the high
\* half is lost
USub(a, b) ==
  [hi |-> (a.hi - b.hi - (IF a.lo < b.lo THEN 1 ELSE 0)) % Half,
   lo |-> (a.lo - b.lo) % Half]

\* a > n for an unsigned long a and a literal 0 <= n < 2^31
UGt(a, n) ==
  a.hi > n \div Half \/ (a.hi = n \div Half /\ a.lo > n % Half)

\* literals of talkMorse()
DashBeepThreshold == 1000
DashBeepMs == 100
DebounceMs == 50
MinPressMs == 100
DotPressMaxMs == 1000

\* static configuration, lines 16-17
toTestBuzzerLedAndButton == FALSE
hcTestMode == FALSE

CR == "\r"
LF == "\n"

\* hold instants (ms after press detection) at which the while loop of
\* talkMorse() is observed sampling the button
HoldSamples == {50, 51, 300, 1000, 1001, 1500}

\* millis() readings at press detection; the second one makes every hold
\* longer than 500 ms span the wrap-around of the counter
StartTimes == {U32(1000), [hi |-> Half - 1, lo |-> Half - 500]}

\* ------------------------------------------------------------ pure functions

\* form feed, and a token that stands for the vertical tab (0x0B), which has
\* no escape in a string here
FF == "\f"
VT == "\\v"

\* isspace() and isdigit() of the C library, as String::toInt() (atol) uses them
IsSpace(c) == c \in {" ", "\t", LF, VT, FF, CR}

IsDigit(c) == c \in {"0", "1", "2", "3", "4", "5", "6", "7", "8", "9"}

DigitVal(c) ==
  CASE c = "0" -> 0 [] c = "1" -> 1 [] c = "2" -> 2 [] c = "3" -> 3
    [] c = "4" -> 4 [] c = "5" -> 5 [] c = "6" -> 6 [] c = "7" -> 7
    [] c = "8" -> 8 [] c = "9" -> 9

DigitChar(n) ==
  CASE n = 0 -> "0" [] n = 1 -> "1" [] n = 2 -> "2" [] n = 3 -> "3"
    [] n = 4 -> "4" [] n = 5 -> "5" [] n = 6 -> "6" [] n = 7 -> "7"
    [] n = 8 -> "8" [] n = 9 -> "9"

\* atol(): leading white space is skipped
RECURSIVE SkipSpace(_)
SkipSpace(s) ==
  IF s # <<>> /\ IsSpace(Head(s)) THEN SkipSpace(Tail(s)) ELSE s

\* the value of the 32 bits of a long, given as two halves, in two's
\* complement
ToLong(hi, lo) ==
  IF hi >= Half \div 2 THEN (hi - Half) * Half + lo ELSE hi * Half + lo

\* atol(): digits are accumulated up to the first character that is no
\* digit, the accumulator times ten plus the digit each time, in the 32 bits
\* of a long (hi and lo are its two halves); atol() of the AVR C library does
\* not detect overflow, the value wraps
RECURSIVE ParseDigits(_, _, _)
ParseDigits(s, hi, lo) ==
  IF s # <<>> /\ IsDigit(Head(s))
    THEN ParseDigits(Tail(s),
                     (hi * 10 + (lo * 10 + DigitVal(Head(s))) \div Half) % Half,
                     (lo * 10 + DigitVal(Head(s))) % Half)
    ELSE ToLong(hi, lo)

\* atol(): the negation of a long, which leaves the least long as it is
Negate(n) == IF n = (0 - Half \div 2) * Half THEN n ELSE 0 - n

\* message.toInt(), line 247: white space, an optional sign, then digits;
\* 0 when no digit is found.  The result is a long.
ToIntWholeLine(s) ==
  IF s # <<>> /\ (\A i \in 1..Len(s) : IsDigit(s[i]))
    THEN ParseDigits(s, 0, 0)
    ELSE 0

ToInt(s) ==
  LET t == SkipSpace(s) IN
    IF t = <<>> THEN 0
    ELSE IF Head(t) = "-" THEN Negate(ParseDigits(Tail(t), 0, 0))
    ELSE IF Head(t) = "+" THEN ParseDigits(Tail(t), 0, 0)
    ELSE ParseDigits(t, 0, 0)

\* the width of int on the AVR target
IntBits == 16

\* the conversion of the long that toInt() returns to the int it is stored
\* in, line 247: the low 16 bits, in two's complement
LongToInt(n) ==
  LET m == n % (2 ^ IntBits) IN
    IF m >= 2 ^ (IntBits - 1) THEN m - 2 ^ IntBits ELSE m

\* Print::print(int): the decimal digits of a value that is not negative
RECURSIVE Decimal(_)
Decimal(n) ==
  IF n < 10 THEN <<DigitChar(n)>>
  ELSE Decimal(n \div 10) \o <<DigitChar(n % 10)>>

\* morse.println(morseToSend), line 259: the digits, then "\r\n"
Println(n) == Decimal(n) \o <<CR, LF>>

\* morse.available(), line 242
AvailableInverted(buf) == buf = <<>>

Available(buf) == buf # <<>>

\* position of the first '\n' of buf, 0 when there is none
RECURSIVE FirstLF(_, _)
FirstLF(buf, i) ==
  IF i > Len(buf) THEN 0
  ELSE IF buf[i] = LF THEN i
  ELSE FirstLF(buf, i + 1)

\* a read that takes all that is buffered
ReadLineAll(buf) == buf

\* morse.readStringUntil('\n'), line 243: the characters before the first
\* '\n'; when none arrives before the stream's timeout, all of them
ReadLine(buf) ==
  LET i == FirstLF(buf, 1) IN
    IF i = 0 THEN buf ELSE SubSeq(buf, 1, i - 1)

\* the String that readStringUntil('\n') builds: a character for which no
\* memory is left is read and dropped, the String stays as it is
Fit(s) == IF Len(s) <= MaxLine THEN s ELSE SubSeq(s, 1, MaxLine)

\* what readStringUntil('\n') leaves in the buffer: the terminator is taken
ReadRestFlush(buf) == <<>>

ReadRest(buf) ==
  LET i == FirstLF(buf, 1) IN
    IF i = 0 THEN <<>> ELSE SubSeq(buf, i + 1, Len(buf))

\* the classification of lines 196-200
Classify(pressDuration) ==
  IF UGt(pressDuration, MinPressMs) /\ ~UGt(pressDuration, DotPressMaxMs)
    THEN 1
  ELSE IF UGt(pressDuration, DotPressMaxMs) THEN 2
  ELSE 0

\* the condition of line 184
BeepDueNoFlag(beeped, holdDuration) == UGt(holdDuration, DashBeepThreshold)

BeepDue(beeped, holdDuration) ==
  ~beeped /\ UGt(holdDuration, DashBeepThreshold)

\* morseBlink(), lines 163-171, under the guard of line 249:
\* "dot", "dash", or "none" when nothing is rendered
BlinkKindElseDash(value) ==
  IF value > 0 /\ value = 1 THEN "dot"
  ELSE IF value > 0 THEN "dash"
  ELSE "none"

BlinkKindAtLeast2(value) ==
  IF value > 0 /\ value = 1 THEN "dot"
  ELSE IF value > 0 /\ value >= 2 THEN "dash"
  ELSE "none"

BlinkKind(value) ==
  IF value > 0 /\ value = 1 THEN "dot"
  ELSE IF value > 0 /\ value = 2 THEN "dash"
  ELSE "none"

\* the delay blink() asserts the outputs for, lines 151-155
BlinkDelaySwapped(isDot, dot, dash) == IF isDot THEN dash ELSE dot

BlinkDelay(isDot, dot, dash) == IF isDot THEN dot ELSE dash

\* ------------------------------------------------------------ state

\* initial values of lines 23-25
DashDurationMs == 600
DotDurationMs == 200
MorseIntervalMs == 1000

\* what the channel may deliver to a device besides the peer's frames:
\* well-formed lines, malformed lines, a line that starts with a form feed,
\* a number that does not fit an int, a fragment with no terminator, and two
\* lines back to back
NoiseBursts ==
  { <<"1", CR, LF>>, <<"2", CR, LF>>, <<"1", LF>>, <<"0", LF>>,
    <<"9", CR, LF>>, <<"a", "b", "c", LF>>, <<LF>>,
    <<"1", "a", "b", "c", LF>>, <<"0", "1", LF>>, <<"1", "2", LF>>,
    <<"-", "1", LF>>, <<FF, "1", LF>>, <<"6", "5", "5", "3", "7", CR, LF>>,
    <<"2">>, <<"2", CR, LF, "1", CR, LF>> }

\* what the radio module may answer to the AT command
ModuleReplies ==
  { <<"O", "K", CR, LF>>, <<"O", "K", "+", "B", "9", "6", "0", "0", CR, LF>>,
    <<"E", "R", "R", "O", "R", CR, LF>>, <<" ", "O", "K", CR, LF>>,
    <<"o", "k", CR, LF>>, <<LF, "O", "K", CR, LF>> }

\* how many characters of a reply the read of line 127 can take at most: up
\* to the first '\n' and that '\n'
Taken(reply) ==
  IF FirstLF(reply, 1) = 0 THEN Len(reply) ELSE FirstLF(reply, 1)

\* what setup() can leave behind of the module's reply when it returns, as
\* the pair of what is in the receive buffer and what has yet to come: of a
\* reply r the read of line 127 has taken the first i characters (none when
\* nothing was there at the check of line 126, the first line when its '\n'
\* came in time, less when the read timed out) and the first j have come
BootEnds ==
  UNION { UNION { { <<SubSeq(r, i + 1, j), SubSeq(r, j + 1, Len(r))>> :
                      j \in i..Len(r) } :
                  i \in 0..Taken(r) } :
          r \in ModuleReplies \cup {<<>>} }

VARIABLES
  pc,                   \* position of each device in loop()
  button,               \* level of BUTTON_PIN (LOW while pressed)
  led,                  \* level of LED_PIN
  buzzer,               \* level of BUZZER_PIN
  rx,                   \* bytes waiting in the SoftwareSerial receive buffer
  lastButtonPressTime,  \* line 30
  dashBeeped,           \* local of talkMorse(), line 175
  morseToSend,          \* line 20
  morseReceived,        \* line 21
  dashDuration,         \* line 23
  dotDuration,          \* line 24
  morseInterval,        \* line 25
  pressClock,           \* the millisecond counter's value at press detection
  elapsed,              \* milliseconds passed since press detection
  presses,              \* presses the operator has made
  noise,                \* bursts the channel has injected
  answer,               \* what the radio module has yet to put on its serial
                        \* line of its reply to the AT command
  message,              \* the String read by line 243 in this tick
  tick,                 \* which branches of loop() this tick has entered,
                        \* and whether the button went down ("down") and up
                        \* again ("done") while this tick was in blink()
  hold,                 \* what happened during the hold of this tick: d is
                        \* the time from press detection to release detection
  onMs,                 \* argument of the delay of line 152/154 in this tick
  gapMs,                \* argument of the delay of line 159 in this tick
  owed,                 \* DOT/DASH results of talkMorse() on this device
                        \* that the peer has not finished rendering, in order
  setPin,               \* level of HC12_SET_PIN (LOW is AT command mode)
  response,             \* the String read by line 127
  beepIdx,              \* i of beep(), line 39
  beepDuration,         \* _duration of beep(), line 38
  isInitiator,          \* line 15
  jig                   \* the value of toTestBuzzerLedAndButton (line 16) in
                        \* the build that runs on the device

pins == <<button, led, buzzer>>
globals == <<lastButtonPressTime, dashBeeped, morseToSend, morseReceived>>
timing == <<dashDuration, dotDuration, morseInterval>>
clock == <<pressClock, elapsed>>
environment == <<presses, noise, answer>>
receiving == <<message, onMs, gapMs>>
sending == <<hold, owed>>
startup == <<setPin, response, beepIdx, beepDuration>>
config == <<isInitiator, jig>>

vars == <<pc, rx, tick, pins, globals, timing, clock, environment,
          receiving, sending, startup, config>>

IdleTick == [rx |-> FALSE, poll |-> FALSE, press |-> "none"]

\* device d is inside blink()
Rendering(d) == pc[d] \in {"blinkOn", "blinkGap"}

NoHold == [pressed |-> FALSE, done |-> FALSE, d |-> 0,
           beeps |-> 0, beepAt |-> 0, past |-> FALSE]

\* millis() once ms milliseconds have passed since press detection
Millis(d, ms) == UAdd(pressClock[d], U32(ms))

\* the state when setup() has returned and its locals are gone, whatever
\* the static configuration of lines 15-16; the receive buffer holds what
\* has come of the module's reply and line 127 did not read, and the rest of
\* the reply can still come
AfterSetup ==
  /\ pc = [d \in Dev |-> "idle"]
  /\ button = [d \in Dev |-> HIGH]
  /\ led = [d \in Dev |-> LOW]
  /\ buzzer = [d \in Dev |-> LOW]
  /\ \E ends \in [Dev -> BootEnds] :
       /\ rx = [d \in Dev |-> ends[d][1]]
       /\ answer = [d \in Dev |-> ends[d][2]]
  /\ lastButtonPressTime = [d \in Dev |-> U32(0)]
  /\ dashBeeped = [d \in Dev |-> FALSE]
  /\ morseToSend = [d \in Dev |-> 0]
  /\ morseReceived = [d \in Dev |-> 0]
  /\ dashDuration = [d \in Dev |-> DashDurationMs]
  /\ dotDuration = [d \in Dev |-> DotDurationMs]
  /\ morseInterval = [d \in Dev |-> MorseIntervalMs]
  /\ pressClock = [d \in Dev |-> U32(0)]
  /\ elapsed = [d \in Dev |-> 0]
  /\ presses = [d \in Dev |-> 0]
  /\ noise = [d \in Dev |-> 0]
  /\ message = [d \in Dev |-> <<>>]
  /\ tick = [d \in Dev |-> IdleTick]
  /\ hold = [d \in Dev |-> NoHold]
  /\ onMs = [d \in Dev |-> 0]
  /\ gapMs = [d \in Dev |-> 0]
  /\ owed = [d \in Dev |-> <<>>]
  /\ setPin = [d \in Dev |-> HIGH]
  /\ response = [d \in Dev |-> <<>>]
  /\ beepIdx = [d \in Dev |-> 0]
  /\ beepDuration = [d \in Dev |-> 0]

\* the state when setup() has returned, in the build of the source
Init ==
  /\ AfterSetup
  /\ isInitiator = [d \in Dev |-> FALSE]
  /\ jig = [d \in Dev |-> toTestBuzzerLedAndButton]

\* ------------------------------------------------------------ environment

\* the operator pushes the button down
Press(d) ==
  /\ button[d] = HIGH
  /\ presses[d] < PressBudget(d)
  /\ button' = [button EXCEPT ![d] = LOW]
  /\ presses' = [presses EXCEPT ![d] = @ + 1]
  /\ tick' = [tick EXCEPT ![d].press = IF Rendering(d) THEN "down" ELSE @]
  /\ UNCHANGED <<pc, rx, led, buzzer, globals, timing, clock, noise, answer,
                 receiving, sending,
                 startup, config>>

\* the operator lets the button go
Release(d) ==
  /\ button[d] = LOW
  /\ button' = [button EXCEPT ![d] = HIGH]
  /\ tick' = [tick EXCEPT ![d].press = IF @ = "down" THEN "done" ELSE @]
  /\ UNCHANGED <<pc, rx, led, buzzer, globals, timing, clock,
                 environment, receiving, sending,
                 startup, config>>

\* one more burst can reach device d while loop() runs; one more than
\* MaxNoise can while a read waits for the end of a line
NoiseLeft(d) == noise[d] < MaxNoise + (IF pc[d] = "reading" THEN 1 ELSE 0)

\* the channel delivers bytes that are not the peer's
Inject(d) ==
  /\ NoiseLeft(d)
  /\ \E burst \in NoiseBursts : rx' = [rx EXCEPT ![d] = @ \o burst]
  /\ noise' = [noise EXCEPT ![d] = @ + 1]
  /\ UNCHANGED <<pc, tick, pins, globals, timing, clock, presses, answer,
                 receiving, sending,
                 startup, config>>

\* the channel goes on delivering bytes that are no '\n' to a read that
\* waits, each before the stream's timeout has passed
Flood(d) ==
  /\ pc[d] = "reading"
  /\ rx[d] = <<>>
  /\ rx' = [rx EXCEPT ![d] = <<"a">>]
  /\ UNCHANGED <<pc, tick, pins, globals, timing, clock, presses, noise,
                 answer, receiving, sending, startup, config>>

\* ------------------------------------------------------------ loop()

\* a loop() that only the initiator runs
LoopEntryOfInitiator(d) ==
  /\ \/ pc[d] = "idle" /\ ~jig[d]
     \/ pc[d] = "main"
  /\ ~hcTestMode
  /\ isInitiator[d]

\* lines 239-240: loop() arrives at the check of line 242, at once when the
\* self-test is not built in, and when testBuzzerLedAndButton() has returned
\* when it is; loopHcTestMode() does nothing under line 17
LoopEntry(d) ==
  /\ \/ pc[d] = "idle" /\ ~jig[d]
     \/ pc[d] = "main"
  /\ ~hcTestMode

\* lines 242-247: data is available and readStringUntil('\n') takes the
\* characters up to the first '\n'; as long as none has come it takes what
\* there is and waits for more (pc "reading"); the read ends with the '\n'
\* or when nothing comes during the stream's timeout, and the line is parsed
LoopReceive(d) ==
  /\ \/ LoopEntry(d) /\ Available(rx[d])
     \/ pc[d] = "reading"
  /\ LET line == Fit((IF pc[d] = "reading" THEN message[d] ELSE <<>>)
                       \o ReadLine(rx[d]))
         over == FirstLF(rx[d], 1) # 0 \/ ~Available(rx[d])
     IN  /\ message' = [message EXCEPT ![d] = line]
         /\ morseReceived' = [morseReceived EXCEPT ![d] =
              IF over THEN LongToInt(ToInt(message'[d])) ELSE @]
         /\ pc' = [pc EXCEPT ![d] = IF over THEN "decoded" ELSE "reading"]
  /\ rx' = [rx EXCEPT ![d] = ReadRest(rx[d])]
  /\ tick' = [tick EXCEPT ![d].rx = TRUE]
  /\ UNCHANGED <<pins, lastButtonPressTime, dashBeeped, morseToSend, timing,
                 clock, environment, onMs, gapMs, sending,
                 startup, config>>

\* lines 249-251, 163-171 and 148-149: a 1 or a 2 starts a blink, anything
\* else ends the tick
MorseBlink(d) ==
  /\ pc[d] = "decoded"
  /\ LET kind == BlinkKind(morseReceived[d]) IN
       IF kind = "none"
         THEN /\ pc' = [pc EXCEPT ![d] = "idle"]
              /\ message' = [message EXCEPT ![d] = <<>>]
              /\ tick' = [tick EXCEPT ![d] = IdleTick]
              /\ UNCHANGED <<led, buzzer, onMs>>
         ELSE /\ pc' = [pc EXCEPT ![d] = "blinkOn"]
              /\ led' = [led EXCEPT ![d] = HIGH]
              /\ buzzer' = [buzzer EXCEPT ![d] = HIGH]
              /\ onMs' = [onMs EXCEPT ![d] =
                   BlinkDelay(kind = "dot", dotDuration[d], dashDuration[d])]
              /\ UNCHANGED <<message, tick>>
  /\ UNCHANGED <<rx, button, globals, timing, clock, environment, gapMs,
                 sending,
                 startup, config>>

\* lines 157-159: the delay of line 152/154 is over
BlinkOff(d) ==
  /\ pc[d] = "blinkOn"
  /\ led' = [led EXCEPT ![d] = LOW]
  /\ buzzer' = [buzzer EXCEPT ![d] = LOW]
  /\ gapMs' = [gapMs EXCEPT ![d] = morseInterval[d]]
  /\ pc' = [pc EXCEPT ![d] = "blinkGap"]
  /\ UNCHANGED <<rx, tick, button, globals, timing, clock, environment,
                 message, onMs, sending,
                 startup, config>>

\* a delay of line 159 that never ends
BlinkGapForever(d) == pc[d] = "blinkGap" /\ UNCHANGED vars

\* line 160: the delay of line 159 is over; blink(), morseBlink() and loop()
\* return
BlinkDone(d) ==
  /\ pc[d] = "blinkGap"
  /\ pc' = [pc EXCEPT ![d] = "idle"]
  /\ owed' = [owed EXCEPT ![Peer(d)] = IF @ = <<>> THEN @ ELSE Tail(@)]
  /\ message' = [message EXCEPT ![d] = <<>>]
  /\ onMs' = [onMs EXCEPT ![d] = 0]
  /\ gapMs' = [gapMs EXCEPT ![d] = 0]
  /\ tick' = [tick EXCEPT ![d] = IdleTick]
  /\ UNCHANGED <<rx, pins, globals, timing, clock, environment, hold,
                 startup, config>>

\* lines 242, 254, 174-177 and 203: nothing is available and the button is
\* up; talkMorse() returns 0 at once
PollReleased(d) ==
  /\ LoopEntry(d)
  /\ ~Available(rx[d])
  /\ button[d] = HIGH
  /\ dashBeeped' = [dashBeeped EXCEPT ![d] = FALSE]
  /\ morseToSend' = [morseToSend EXCEPT ![d] = 0]
  /\ tick' = [tick EXCEPT ![d].poll = TRUE]
  /\ pc' = [pc EXCEPT ![d] = "polled"]
  /\ UNCHANGED <<rx, pins, lastButtonPressTime, morseReceived, timing, clock,
                 environment, receiving, sending,
                 startup, config>>

\* a poll of the button that does not care for waiting data
PollPressedDespiteData(d) ==
  /\ LoopEntry(d)
  /\ button[d] = LOW
  /\ \E now \in StartTimes :
       /\ pressClock' = [pressClock EXCEPT ![d] = now]
       /\ lastButtonPressTime' = [lastButtonPressTime EXCEPT ![d] = now]
  /\ elapsed' = [elapsed EXCEPT ![d] = 0]
  /\ dashBeeped' = [dashBeeped EXCEPT ![d] = FALSE]
  /\ hold' = [hold EXCEPT ![d] = [NoHold EXCEPT !.pressed = TRUE]]
  /\ tick' = [tick EXCEPT ![d].poll = TRUE]
  /\ pc' = [pc EXCEPT ![d] = "hold"]
  /\ UNCHANGED <<rx, pins, morseToSend, morseReceived, timing, environment,
                 receiving, owed,
                 startup, config>>

\* lines 242, 254 and 174-178: nothing is available and the button is down;
\* the press is detected and its time taken
PollPressed(d) ==
  /\ LoopEntry(d)
  /\ ~Available(rx[d])
  /\ button[d] = LOW
  /\ \E now \in StartTimes :
       /\ pressClock' = [pressClock EXCEPT ![d] = now]
       /\ lastButtonPressTime' = [lastButtonPressTime EXCEPT ![d] = now]
  /\ elapsed' = [elapsed EXCEPT ![d] = 0]
  /\ dashBeeped' = [dashBeeped EXCEPT ![d] = FALSE]
  /\ hold' = [hold EXCEPT ![d] = [NoHold EXCEPT !.pressed = TRUE]]
  /\ tick' = [tick EXCEPT ![d].poll = TRUE]
  /\ pc' = [pc EXCEPT ![d] = "hold"]
  /\ UNCHANGED <<rx, pins, morseToSend, morseReceived, timing, environment,
                 receiving, owed,
                 startup, config>>

\* lines 180-185: an iteration of the while loop that finds the button still
\* down, t ms after press detection
HoldIter(d) ==
  /\ pc[d] = "hold"
  /\ button[d] = LOW
  /\ \E t \in HoldSamples :
       /\ t > elapsed[d]
       /\ elapsed' = [elapsed EXCEPT ![d] = t]
       /\ LET holdDuration == USub(Millis(d, t), lastButtonPressTime[d]) IN
            IF BeepDue(dashBeeped[d], holdDuration)
              THEN /\ buzzer' = [buzzer EXCEPT ![d] = HIGH]
                   /\ pc' = [pc EXCEPT ![d] = "beep"]
                   /\ hold' = [hold EXCEPT ![d].beeps = @ + 1,
                                            ![d].beepAt = t,
                                            ![d].past = TRUE]
              ELSE /\ hold' = [hold EXCEPT ![d].past =
                                 @ \/ t > DashBeepThreshold]
                   /\ UNCHANGED <<buzzer, pc>>
  /\ UNCHANGED <<rx, tick, button, led, globals, timing, pressClock,
                 environment, receiving, owed,
                 startup, config>>

\* a beep whose buzzer is not lowered
BeepEndBuzzerLeftOn(d) ==
  /\ pc[d] = "beep"
  /\ dashBeeped' = [dashBeeped EXCEPT ![d] = TRUE]
  /\ elapsed' = [elapsed EXCEPT ![d] = @ + DashBeepMs]
  /\ pc' = [pc EXCEPT ![d] = "hold"]
  /\ UNCHANGED <<rx, tick, pins, lastButtonPressTime, morseToSend,
                 morseReceived, timing, pressClock, environment, receiving,
                 sending, startup, config>>

\* lines 186-189: the short beep is over
BeepEnd(d) ==
  /\ pc[d] = "beep"
  /\ buzzer' = [buzzer EXCEPT ![d] = LOW]
  /\ dashBeeped' = [dashBeeped EXCEPT ![d] = TRUE]
  /\ elapsed' = [elapsed EXCEPT ![d] = @ + DashBeepMs]
  /\ pc' = [pc EXCEPT ![d] = "hold"]
  /\ UNCHANGED <<rx, tick, button, led, lastButtonPressTime, morseToSend,
                 morseReceived, timing, pressClock, environment, receiving,
                 sending,
                 startup, config>>

\* lines 180 and 192: the while condition finds the button up, in the
\* millisecond of the last iteration (the loop samples the button many times
\* a millisecond); the debounce delay starts
HoldExit(d) ==
  /\ pc[d] = "hold"
  /\ button[d] = HIGH
  /\ hold' = [hold EXCEPT ![d].d = elapsed[d]]
  /\ pc' = [pc EXCEPT ![d] = "debounce"]
  /\ UNCHANGED <<rx, tick, pins, globals, timing, clock, environment,
                 receiving, owed, startup, config>>

\* lines 192-203: the debounce delay is over; the press is classified by the
\* time passed since press detection and talkMorse() returns, which ends the
\* life of its local dashBeeped
HoldClassify(d) ==
  /\ pc[d] = "debounce"
  /\ LET pressDuration ==
           USub(Millis(d, elapsed[d] + DebounceMs), lastButtonPressTime[d])
         sym == Classify(pressDuration)
     IN  /\ elapsed' = [elapsed EXCEPT ![d] = @ + DebounceMs]
         /\ hold' = [hold EXCEPT ![d].done = TRUE]
         /\ morseToSend' = [morseToSend EXCEPT ![d] = sym]
         /\ owed' = [owed EXCEPT ![d] =
              IF sym > 0 THEN Append(@, sym) ELSE @]
  /\ dashBeeped' = [dashBeeped EXCEPT ![d] = FALSE]
  /\ pc' = [pc EXCEPT ![d] = "polled"]
  /\ UNCHANGED <<rx, tick, pins, lastButtonPressTime, morseReceived, timing,
                 pressClock, environment, receiving,
                 startup, config>>

\* the condition of line 256
ShouldSendAny(value) == value >= 0

ShouldSend(value) == value > 0

\* lines 256-261: a result above 0 is written to the link; loop() returns
Send(d) ==
  /\ pc[d] = "polled"
  /\ IF ShouldSend(morseToSend[d])
       THEN rx' = [rx EXCEPT ![Peer(d)] = @ \o Println(morseToSend[d])]
       ELSE UNCHANGED rx
  /\ pc' = [pc EXCEPT ![d] = "idle"]
  /\ tick' = [tick EXCEPT ![d] = IdleTick]
  /\ hold' = [hold EXCEPT ![d] = NoHold]
  /\ elapsed' = [elapsed EXCEPT ![d] = 0]
  /\ UNCHANGED <<pins, globals, timing, pressClock, environment, receiving,
                 owed,
                 startup, config>>

\* ------------------------------------------------------------ self-test

\* lines 72 and 56: the self-test is built in and finds the button up;
\* testBuzzerLedAndButton() returns at once
JigSkip(d) ==
  /\ pc[d] = "idle"
  /\ jig[d]
  /\ button[d] = HIGH
  /\ pc' = [pc EXCEPT ![d] = "main"]
  /\ UNCHANGED <<rx, tick, pins, globals, timing, clock, environment,
                 receiving, sending, startup, config>>

\* lines 56-60: the self-test finds the button down, at line 56 or at the
\* while condition of line 57, and raises LED and buzzer
JigOn(d) ==
  /\ \/ pc[d] = "idle" /\ jig[d]
     \/ pc[d] = "jigOff"
  /\ button[d] = LOW
  /\ led' = [led EXCEPT ![d] = HIGH]
  /\ buzzer' = [buzzer EXCEPT ![d] = HIGH]
  /\ pc' = [pc EXCEPT ![d] = "jigOn"]
  /\ UNCHANGED <<rx, tick, button, globals, timing, clock, environment,
                 receiving, sending, startup, config>>

\* lines 61-63: the delay of line 60 is over; LED and buzzer are lowered
JigOff(d) ==
  /\ pc[d] = "jigOn"
  /\ led' = [led EXCEPT ![d] = LOW]
  /\ buzzer' = [buzzer EXCEPT ![d] = LOW]
  /\ pc' = [pc EXCEPT ![d] = "jigOff"]
  /\ UNCHANGED <<rx, tick, button, globals, timing, clock, environment,
                 receiving, sending, startup, config>>

\* lines 57 and 66-68: the delay of line 63 is over and the while condition
\* finds the button up; testBuzzerLedAndButton() returns to loop()
JigExit(d) ==
  /\ pc[d] = "jigOff"
  /\ button[d] = HIGH
  /\ led' = [led EXCEPT ![d] = LOW]
  /\ buzzer' = [buzzer EXCEPT ![d] = LOW]
  /\ pc' = [pc EXCEPT ![d] = "main"]
  /\ UNCHANGED <<rx, tick, button, globals, timing, clock, environment,
                 receiving, sending, startup, config>>

\* ------------------------------------------------------------ setup()

BeepTimes == 5

FastBeepMs == 150

SlowBeepMs == 500

\* String::startsWith
StartsWith(s, prefix) ==
  /\ Len(s) >= Len(prefix)
  /\ SubSeq(s, 1, Len(prefix)) = prefix

\* the condition of line 133
ResponseOkExact(resp) == resp = <<"O", "K">>

ResponseOk(resp) == StartsWith(resp, <<"O", "K">>)

SetupBeeping == {"setupLoop", "beepHigh", "beepLow"}

\* the state at reset, before setup() runs
InitBoot ==
  /\ pc = [d \in Dev |-> "reset"]
  /\ button = [d \in Dev |-> HIGH]
  /\ led = [d \in Dev |-> LOW]
  /\ buzzer = [d \in Dev |-> LOW]
  /\ rx = [d \in Dev |-> <<>>]
  /\ lastButtonPressTime = [d \in Dev |-> U32(0)]
  /\ dashBeeped = [d \in Dev |-> FALSE]
  /\ morseToSend = [d \in Dev |-> 0]
  /\ morseReceived = [d \in Dev |-> 0]
  /\ dashDuration = [d \in Dev |-> DashDurationMs]
  /\ dotDuration = [d \in Dev |-> DotDurationMs]
  /\ morseInterval = [d \in Dev |-> MorseIntervalMs]
  /\ pressClock = [d \in Dev |-> U32(0)]
  /\ elapsed = [d \in Dev |-> 0]
  /\ presses = [d \in Dev |-> 0]
  /\ noise = [d \in Dev |-> 0]
  /\ answer = [d \in Dev |-> <<>>]
  /\ message = [d \in Dev |-> <<>>]
  /\ tick = [d \in Dev |-> IdleTick]
  /\ hold = [d \in Dev |-> NoHold]
  /\ onMs = [d \in Dev |-> 0]
  /\ gapMs = [d \in Dev |-> 0]
  /\ owed = [d \in Dev |-> <<>>]
  /\ \E level \in {LOW, HIGH} : setPin = [d \in Dev |-> level]
  /\ response = [d \in Dev |-> <<>>]
  /\ beepIdx = [d \in Dev |-> 0]
  /\ beepDuration = [d \in Dev |-> 0]
  /\ \E role \in BOOLEAN : isInitiator = [d \in Dev |-> role]
  /\ jig = [d \in Dev |-> toTestBuzzerLedAndButton]

\* lines 211-222 and 77-91: the pins are set up, the SET pin is raised and
\* setupHcTestMode() writes "1" to the link in a link-test initiator
SetupStart(d) ==
  /\ pc[d] = "reset"
  /\ setPin' = [setPin EXCEPT ![d] = HIGH]
  /\ IF hcTestMode /\ isInitiator[d]
       THEN rx' = [rx EXCEPT ![Peer(d)] = @ \o Println(1)]
       ELSE UNCHANGED rx
  /\ pc' = [pc EXCEPT ![d] = "hc12"]
  /\ UNCHANGED <<tick, pins, globals, timing, clock, environment, receiving,
                 sending, response, beepIdx, beepDuration, config>>

\* lines 117-121: the serial port is opened and the module is put in AT
\* command mode
SetupHc12Begin(d) ==
  /\ pc[d] = "hc12"
  /\ rx' = [rx EXCEPT ![d] = <<>>]
  /\ setPin' = [setPin EXCEPT ![d] = LOW]
  /\ pc' = [pc EXCEPT ![d] = "atMode"]
  /\ UNCHANGED <<tick, pins, globals, timing, clock, environment, receiving,
                 sending, response, beepIdx, beepDuration, config>>

\* lines 123-124: the AT command is written to the module, which makes up
\* its reply if it is there
SendAT(d) ==
  /\ pc[d] = "atMode"
  /\ \E reply \in ModuleReplies \cup {<<>>} :
       answer' = [answer EXCEPT ![d] = reply]
  /\ pc' = [pc EXCEPT ![d] = "atSent"]
  /\ UNCHANGED <<rx, tick, pins, globals, timing, clock, presses, noise,
                 receiving, sending, startup, config>>

\* the positions of setup() from the AT command on
InSetup == {"atSent", "atReading"} \cup SetupBeeping

\* the next bytes of the module's reply come in: during the delay of line
\* 124, during the read of line 127, during the beeps or, as one of the
\* bursts of bytes that are not the peer's, when loop() runs
ModuleAnswers(d) ==
  /\ answer[d] # <<>>
  /\ pc[d] \in InSetup \/ NoiseLeft(d)
  /\ \E k \in 1..Len(answer[d]) :
       /\ rx' = [rx EXCEPT ![d] = @ \o SubSeq(answer[d], 1, k)]
       /\ answer' = [answer EXCEPT ![d] = SubSeq(@, k + 1, Len(@))]
  /\ noise' = [noise EXCEPT ![d] = IF pc[d] \in InSetup THEN @ ELSE @ + 1]
  /\ UNCHANGED <<pc, tick, pins, globals, timing, clock, presses,
                 receiving, sending, startup, config>>

\* lines 126-144 and 224-230: when something is available
\* readStringUntil('\n') takes the characters up to the first '\n'; as long
\* as none has come it takes what there is and waits for more (pc
\* "atReading"), and it ends with the '\n' or when nothing comes during the
\* stream's timeout; the SET pin is raised on both paths, and beep(5, 150)
\* or beep(5, 500) is called
ReadResponse(d) ==
  /\ pc[d] \in {"atSent", "atReading"}
  /\ LET answered == pc[d] = "atReading" \/ Available(rx[d])
         line == Fit((IF pc[d] = "atReading" THEN response[d] ELSE <<>>)
                       \o ReadLine(rx[d]))
         over == FirstLF(rx[d], 1) # 0 \/ ~Available(rx[d])
         ok == answered /\ ResponseOk(line)
     IN  /\ response' = [response EXCEPT ![d] = line]
         /\ beepDuration' = [beepDuration EXCEPT ![d] =
              IF ~over THEN @ ELSE IF ok THEN FastBeepMs ELSE SlowBeepMs]
         /\ setPin' = [setPin EXCEPT ![d] = IF over THEN HIGH ELSE @]
         /\ pc' = [pc EXCEPT ![d] = IF over THEN "setupLoop" ELSE "atReading"]
  /\ rx' = [rx EXCEPT ![d] = ReadRest(@)]
  /\ beepIdx' = [beepIdx EXCEPT ![d] = 0]
  /\ UNCHANGED <<tick, pins, globals, timing, clock, environment, receiving,
                 sending, config>>

\* lines 39-41: i < _times; the buzzer is raised
SetupBeepOn(d) ==
  /\ pc[d] = "setupLoop"
  /\ beepIdx[d] < BeepTimes
  /\ buzzer' = [buzzer EXCEPT ![d] = HIGH]
  /\ pc' = [pc EXCEPT ![d] = "beepHigh"]
  /\ UNCHANGED <<rx, tick, button, led, globals, timing, clock, environment,
                 receiving, sending, startup, config>>

\* lines 42-43: the first delay is over; the buzzer is lowered
SetupBeepOff(d) ==
  /\ pc[d] = "beepHigh"
  /\ buzzer' = [buzzer EXCEPT ![d] = LOW]
  /\ pc' = [pc EXCEPT ![d] = "beepLow"]
  /\ UNCHANGED <<rx, tick, button, led, globals, timing, clock, environment,
                 receiving, sending, startup, config>>

\* line 39: the second delay is over; i++
SetupBeepNext(d) ==
  /\ pc[d] = "beepLow"
  /\ beepIdx' = [beepIdx EXCEPT ![d] = @ + 1]
  /\ pc' = [pc EXCEPT ![d] = "setupLoop"]
  /\ UNCHANGED <<rx, tick, pins, globals, timing, clock, environment,
                 receiving, sending, setPin, response, beepDuration, config>>

\* lines 39 and 234: i reaches _times, beep() and setup() return and their
\* locals are gone
SetupDone(d) ==
  /\ pc[d] = "setupLoop"
  /\ beepIdx[d] >= BeepTimes
  /\ response' = [response EXCEPT ![d] = <<>>]
  /\ beepIdx' = [beepIdx EXCEPT ![d] = 0]
  /\ beepDuration' = [beepDuration EXCEPT ![d] = 0]
  /\ pc' = [pc EXCEPT ![d] = "idle"]
  /\ UNCHANGED <<rx, tick, pins, globals, timing, clock, environment,
                 receiving, sending, setPin, config>>

\* ------------------------------------------------------------ specifications

\* one step of the sketch on device d
Device(d) ==
  \/ LoopReceive(d)
  \/ MorseBlink(d)
  \/ BlinkOff(d)
  \/ BlinkDone(d)
  \/ PollReleased(d)
  \/ PollPressed(d)
  \/ HoldIter(d)
  \/ BeepEnd(d)
  \/ HoldExit(d)
  \/ HoldClassify(d)
  \/ Send(d)

Operator(d) == Press(d) \/ Release(d)

\* nothing of the reply of d's module is in the receive buffer or to come
Quiet(d) == rx[d] = <<>> /\ answer[d] = <<>>

\* device d runs alone: its peer is off, and the peer's receive buffer is
\* there to keep what d sends
Alone(d) == Quiet(Peer(d))

\* what was to come of the reply of d's module has come
Settled(d) == answer[d] = <<>>

\* device A under an arbitrary channel and operator, with what its radio
\* module has yet to deliver of its reply
Next == Device("A") \/ Operator("A") \/ Inject("A") \/ ModuleAnswers("A")

\* device A starts loop() alone, with any end of setup()
InitAlone == Init /\ Alone("A")

Spec == InitAlone /\ [][Next]_vars

\* device A under an operator and a channel that can also keep a waiting
\* read going without end
NextSettled == Device("A") \/ Operator("A") \/ Inject("A") \/ Flood("A")

\* device A alone, once its module's reply has come whole: loop() is called
\* again and again, and an operator who holds the button down lets it go in
\* the end
InitSettled == Init /\ Alone("A") /\ Settled("A")

SpecFair ==
  /\ InitSettled
  /\ [][NextSettled]_vars
  /\ WF_vars(Device("A")) /\ WF_vars(Release("A"))

\* both devices over a link that delivers the peer's lines and nothing else
NextLink == \E d \in Dev : Device(d) \/ Operator(d)

\* two devices whose receive buffers are empty when loop() starts, and whose
\* radio modules have nothing more to say
InitLink == Init /\ Quiet("A") /\ Quiet("B")

SpecLink == InitLink /\ [][NextLink]_vars

\* loop() is called again and again on each device, and an operator who holds
\* a button down lets it go in the end
FairLink ==
  /\ WF_vars(Device("A")) /\ WF_vars(Release("A"))
  /\ WF_vars(Device("B")) /\ WF_vars(Release("B"))

SpecLinkFair == InitLink /\ [][NextLink]_vars /\ FairLink

\* setup() on one device
Setup(d) ==
  \/ SetupStart(d)
  \/ SetupHc12Begin(d)
  \/ SendAT(d)
  \/ ReadResponse(d)
  \/ SetupBeepOn(d)
  \/ SetupBeepOff(d)
  \/ SetupBeepNext(d)
  \/ SetupDone(d)

\* device A from reset to the first call of loop(), with its radio module
NextBoot == Setup("A") \/ ModuleAnswers("A")

\* setup() runs on: every delay of setup() ends
SpecBoot == InitBoot /\ [][NextBoot]_vars /\ WF_vars(Setup("A"))

\* the state when setup() has returned, in a build with line 16 set to true
InitJig ==
  /\ AfterSetup
  /\ isInitiator = [d \in Dev |-> FALSE]
  /\ jig = [d \in Dev |-> TRUE]

\* loopBuzzerLedAndButtonTest() on one device
Jig(d) == JigSkip(d) \/ JigOn(d) \/ JigOff(d) \/ JigExit(d)

\* device A with the self-test built in, under an arbitrary channel and
\* operator
NextJig ==
  Jig("A") \/ Device("A") \/ Operator("A") \/ Inject("A") \/ ModuleAnswers("A")

\* device A of that build starts loop() alone, with any end of setup()
InitJigAlone == InitJig /\ Alone("A")

SpecJig == InitJigAlone /\ [][NextJig]_vars

\* the state when setup() has returned on two devices that differ in the
\* role flag of line 15 only
InitRoles ==
  /\ AfterSetup
  /\ isInitiator = [d \in Dev |-> d = "A"]
  /\ jig = [d \in Dev |-> toTestBuzzerLedAndButton]

\* all of device d's state but its role flag
View(d) ==
  <<pc[d], button[d], led[d], buzzer[d], rx[d], lastButtonPressTime[d],
    dashBeeped[d], morseToSend[d], morseReceived[d], dashDuration[d],
    dotDuration[d], morseInterval[d], pressClock[d], elapsed[d], presses[d],
    noise[d], answer[d], message[d], tick[d], hold[d], onMs[d], gapMs[d], owed[d],
    setPin[d], response[d], beepIdx[d], beepDuration[d], jig[d]>>

InStep == View("A") = View("B")

\* a step of the initiator or of its operator
Lead ==
  \/ Device("A")
  \/ ModuleAnswers("A")
  \/ Release("A")
  \/ presses["A"] < PressBudget("B") /\ Press("A")

\* a step of the responder or of its operator that gets the inputs the
\* initiator's step got: the button's level and the readings of millis()
Follow ==
  /\ Device("B") \/ Operator("B") \/ ModuleAnswers("B")
  /\ answer'["B"] = answer["A"]
  /\ button'["B"] = button["A"]
  /\ presses'["B"] = presses["A"]
  /\ pressClock'["B"] = pressClock["A"]
  /\ elapsed'["B"] = elapsed["A"]

\* the two devices are linked to each other and their operators do the same
\* at the same time: the initiator steps, then the responder does
NextRoles == (InStep /\ Lead) \/ (~InStep /\ Follow)

\* two devices that differ in the role flag and in nothing else when loop()
\* starts: their radio modules have answered alike
InitInStep == InitRoles /\ InStep

SpecRoles == InitInStep /\ [][NextRoles]_vars

\* ------------------------------------------------------------ vocabulary

\* the device whose behaviour the claims about one device are stated for
DUT == "A"

RxBranch == {"reading", "decoded", "blinkOn", "blinkGap"}

PollBranch == {"hold", "beep", "debounce", "polled"}

\* device d writes to the link in this step
Transmits(d) == Len(rx'[Peer(d)]) > Len(rx[Peer(d)])

\* device d starts a tick of loop() in this step
StartsTick(d) == pc[d] = "idle" /\ pc'[d] # "idle"

\* ------------------------------------------------------------ claims

\* C1: a tick that finds inbound data at the check of line 242 reads and
\* decodes a line, does not poll the button and writes nothing to the link,
\* whatever the button's level; no tick enters both the receive branch and
\* the poll branch.
C1_SessionPriority ==
  /\ [][\A d \in Dev :
          /\ (StartsTick(d) /\ rx[d] # <<>>) =>
               (pc'[d] \in {"reading", "decoded"} /\ tick'[d].rx
                 /\ ~tick'[d].poll /\ rx'[d] # rx[d])
          /\ (tick[d].rx \/ tick'[d].rx) => ~Transmits(d)]_vars
  /\ [](\A d \in Dev :
          /\ ~(tick[d].rx /\ tick[d].poll)
          /\ pc[d] \in RxBranch => (tick[d].rx /\ ~tick[d].poll)
          /\ pc[d] \in PollBranch => (tick[d].poll /\ ~tick[d].rx))

\* an inbound line is being rendered while the button is held down
C1_Witness ==
  /\ pc[DUT] = "blinkOn"
  /\ button[DUT] = LOW
  /\ tick[DUT].rx

\* the symbol the specification assigns to a hold of ms milliseconds
SymbolOfHold(ms) ==
  IF ms <= MinPressMs THEN 0
  ELSE IF ms <= DotPressMaxMs THEN 1
  ELSE 2

\* a press has been completed and classified in this tick
PressCompleted(d) == pc[d] = "polled" /\ hold[d].done

\* C2: for every completed press, with the hold d measured from press
\* detection to release detection, talkMorse() returns 0 when d <= 100,
\* 1 when 100 < d <= 1000 and 2 when d > 1000.
C2_ClassifyByHold ==
  \A d \in Dev :
    PressCompleted(d) => morseToSend[d] = SymbolOfHold(hold[d].d)

\* C3 as stated: a blink is only ever started by a line that is exactly "1"
\* or "2"; every other line is decoded as NONE and renders nothing.
C3_StrictDecode ==
  \A d \in Dev :
    pc[d] \in {"blinkOn", "blinkGap"} => message[d] \in {<<"1">>, <<"2">>}

\* C3 as amended: a line whose toInt() value, stored in the 16-bit int
\* morseReceived, is neither 1 nor 2 decodes to NONE: the tick ends with the
\* outputs untouched, and a step of the sketch is always possible after the
\* line is read; a blink is only ever started by a line whose stored value
\* is 1 or 2.
C3_DecodeByValue ==
  /\ [](\A d \in Dev :
          /\ pc[d] \in {"blinkOn", "blinkGap"} =>
               LongToInt(ToInt(message[d])) \in {1, 2}
          /\ pc[d] = "decoded" => ENABLED MorseBlink(d))
  /\ [][\A d \in Dev :
          (pc[d] = "decoded" /\ pc'[d] # "decoded"
             /\ LongToInt(ToInt(message[d])) \notin {1, 2}) =>
            (pc'[d] = "idle" /\ led'[d] = led[d] /\ buzzer'[d] = buzzer[d])]_vars

\* the line "abc" has been read and decoded to 0
C3_Witness ==
  /\ pc[DUT] = "decoded"
  /\ message[DUT] = <<"a", "b", "c">>
  /\ morseReceived[DUT] = 0

\* C4: the line the sender writes for a symbol, "1\r\n" for DOT and "2\r\n"
\* for DASH, decodes at the peer to that symbol, and printing the decoded
\* value again gives the line that was read.
C4_RoundTrip ==
  \A d \in Dev :
    pc[d] = "decoded" =>
      /\ owed[Peer(d)] # <<>>
      /\ morseReceived[d] = Head(owed[Peer(d)])
      /\ message[d] = <<DigitChar(Head(owed[Peer(d)])), CR>>
      /\ Println(morseReceived[d]) = message[d] \o <<LF>>

\* device B has decoded the line device A wrote for a DASH
C4_Witness ==
  /\ pc["B"] = "decoded"
  /\ owed["A"] = <<2>>
  /\ message["B"] = <<"2", CR>>
  /\ morseReceived["B"] = 2

\* C5: the device writes to the link only in the step that follows a DOT or
\* DASH result of talkMorse(), one line "1\r\n" or "2\r\n" per result; a
\* result of 0 writes nothing, and a tick that received writes nothing.
C5_TransmitOnlySymbols ==
  [][/\ Transmits(DUT) =>
          /\ pc[DUT] = "polled"
          /\ tick[DUT].poll /\ ~tick[DUT].rx
          /\ morseToSend[DUT] \in {1, 2}
          /\ rx'[Peer(DUT)] =
               rx[Peer(DUT)] \o <<DigitChar(morseToSend[DUT]), CR, LF>>
     /\ (pc[DUT] = "polled" /\ pc'[DUT] = "idle") =>
          (Transmits(DUT) <=> morseToSend[DUT] \in {1, 2})]_vars

\* a DASH has been written once, and a second press has just been classified
\* NONE
C5_Witness ==
  /\ PressCompleted(DUT)
  /\ presses[DUT] = 2
  /\ morseToSend[DUT] = 0
  /\ rx[Peer(DUT)] = <<"2", CR, LF>>

\* C6: while a received DOT (DASH) is rendered, LED and buzzer are both on
\* during a delay of dotDuration (dashDuration) and then both off during a
\* delay of morseInterval before blink() returns; the three timing values
\* never change and dotDuration < dashDuration.
C6_RenderTiming ==
  /\ [](\A d \in Dev :
          /\ pc[d] = "blinkOn" =>
               /\ led[d] = HIGH /\ buzzer[d] = HIGH
               /\ morseReceived[d] \in {1, 2}
               /\ morseReceived[d] = 1 => onMs[d] = dotDuration[d]
               /\ morseReceived[d] = 2 => onMs[d] = dashDuration[d]
          /\ pc[d] = "blinkGap" =>
               /\ led[d] = LOW /\ buzzer[d] = LOW
               /\ morseReceived[d] = 1 => onMs[d] = dotDuration[d]
               /\ morseReceived[d] = 2 => onMs[d] = dashDuration[d]
               /\ gapMs[d] = morseInterval[d]
          /\ dotDuration[d] = DotDurationMs
          /\ dashDuration[d] = DashDurationMs
          /\ morseInterval[d] = MorseIntervalMs
          /\ dotDuration[d] < dashDuration[d])
  /\ [][timing' = timing]_vars

\* a DASH has been shown for dashDuration and the gap is running
C6_Witness ==
  /\ pc[DUT] = "blinkGap"
  /\ morseReceived[DUT] = 2
  /\ onMs[DUT] = DashDurationMs
  /\ gapMs[DUT] = MorseIntervalMs

C8_DashBeepOnce ==
  /\ [](\A d \in Dev :
          /\ hold[d].beeps <= 1
          /\ hold[d].beeps = 1 =>
               (hold[d].beepAt > DashBeepThreshold /\ hold[d].past)
          /\ hold[d].past => hold[d].beeps = 1
          /\ (hold[d].done /\ hold[d].d <= DashBeepThreshold) =>
               hold[d].beeps = 0
          /\ pc[d] = "beep" => (buzzer[d] = HIGH /\ hold[d].beeps = 1)
          /\ pc[d] = "hold" => (dashBeeped[d] <=> hold[d].beeps = 1))
  /\ [][\A d \in Dev :
          (StartsTick(d) /\ pc'[d] = "hold") =>
            (~dashBeeped'[d] /\ hold'[d].beeps = 0)]_vars

\* the second hold of the operator beeps, after a first press that was
\* classified DASH
C8_Witness ==
  /\ presses[DUT] = 2
  /\ pc[DUT] = "beep"
  /\ hold[DUT].beeps = 1
  /\ morseToSend[DUT] = 2

\* C9: a completed press is classified DASH if and only if the dash-warning
\* beep sounded during its hold.
C9_DashIffBeep ==
  \A d \in Dev :
    PressCompleted(d) => (morseToSend[d] = 2 <=> hold[d].beeps >= 1)

\* the lines waiting in a receive buffer, oldest first
RECURSIVE LinesOf(_)
LinesOf(buf) ==
  IF buf = <<>> THEN <<>> ELSE <<ReadLine(buf)>> \o LinesOf(ReadRest(buf))

\* the symbols of device a that are under way to its peer: the one the peer
\* is rendering, those waiting in the peer's buffer, the one a is about to
\* write
UnderWay(a) ==
  LET b == Peer(a)
      lines == LinesOf(rx[b])
  IN  (IF pc[b] \in RxBranch THEN <<morseReceived[b]>> ELSE <<>>)
        \o [i \in 1..Len(lines) |-> LongToInt(ToInt(lines[i]))]
        \o (IF PressCompleted(a) /\ morseToSend[a] > 0
              THEN <<morseToSend[a]>> ELSE <<>>)

RenderMs(sym) == IF sym = 1 THEN DotDurationMs ELSE DashDurationMs

\* C10: over the lossless link, which brings the peer's lines and nothing
\* else to receive buffers that were empty when loop() started, every press
\* classified DOT or DASH on a device puts exactly one line "1\r\n" or
\* "2\r\n" on the link, the peer renders the
\* lines one by one in the order of the presses, each for dotDuration or
\* dashDuration with LED and buzzer on, and every such press is rendered in
\* the end, given that held buttons are released.
C10_EndToEnd ==
  /\ [](\A a \in Dev :
          /\ owed[a] = UnderWay(a)
          /\ \A i \in 1..Len(LinesOf(rx[Peer(a)])) :
               LinesOf(rx[Peer(a)])[i] \in {<<"1", CR>>, <<"2", CR>>}
          /\ pc[Peer(a)] \in {"blinkOn", "blinkGap"} =>
               /\ owed[a] # <<>>
               /\ onMs[Peer(a)] = RenderMs(Head(owed[a]))
          /\ pc[Peer(a)] = "blinkOn" =>
               (led[Peer(a)] = HIGH /\ buzzer[Peer(a)] = HIGH))
  /\ [][\A a \in Dev :
          owed'[a] # owed[a] =>
            \/ /\ pc[a] = "debounce" /\ pc'[a] = "polled"
               /\ owed'[a] = Append(owed[a], morseToSend'[a])
            \/ /\ pc[Peer(a)] = "blinkGap" /\ pc'[Peer(a)] = "idle"
               /\ owed'[a] = Tail(owed[a])]_vars
  /\ (owed["A"] # <<>>) ~> (owed["A"] = <<>>)
  /\ (owed["B"] # <<>>) ~> (owed["B"] = <<>>)

\* device A has sent a DASH and then a DOT; device B, whose button is held
\* down, renders the DASH while the DOT waits in its buffer
C10_Witness ==
  /\ owed["A"] = <<2, 1>>
  /\ pc["B"] = "blinkOn"
  /\ onMs["B"] = DashDurationMs
  /\ rx["B"] = <<"1", CR, LF>>
  /\ button["B"] = LOW

\* setup() returns in this step
SetupEnds(d) == pc[d] \in SetupBeeping /\ pc'[d] = "idle"

\* C11: setup() always comes to its end and loop() can then start a tick,
\* whatever the radio module answers and whenever; the five beeps last 150 ms
\* each when the line read at line 127 begins with "OK" and 500 ms each when
\* no line was read or it begins otherwise; the SET pin is HIGH from the
\* check of the answer on, and when setup() returns.
C11_StartupNonFatal ==
  /\ (pc[DUT] = "reset") ~> (pc[DUT] = "idle")
  /\ [](/\ pc[DUT] \in SetupBeeping =>
             /\ setPin[DUT] = HIGH
             /\ beepIdx[DUT] <= BeepTimes
             /\ beepDuration[DUT] \in {FastBeepMs, SlowBeepMs}
             /\ beepDuration[DUT] = FastBeepMs <=>
                  /\ Len(response[DUT]) >= 2
                  /\ response[DUT][1] = "O"
                  /\ response[DUT][2] = "K"
             /\ buzzer[DUT] = HIGH <=> pc[DUT] = "beepHigh"
        /\ pc[DUT] = "idle" =>
             (setPin[DUT] = HIGH /\ buzzer[DUT] = LOW /\ ENABLED Device(DUT)))
  /\ [][SetupEnds(DUT) =>
          (beepIdx[DUT] = BeepTimes /\ setPin'[DUT] = HIGH)]_vars

\* the fifth fast beep sounds after the answer "OK\r\n" was read
C11_Witness ==
  /\ pc[DUT] = "beepHigh"
  /\ beepIdx[DUT] = BeepTimes - 1
  /\ beepDuration[DUT] = FastBeepMs
  /\ response[DUT] = <<"O", "K", CR>>
  /\ setPin[DUT] = HIGH

\* at every position but the hold loop the next step of the sketch is
\* possible whatever the operator and the channel do; in the hold loop the
\* sketch goes on as soon as the button is up; at idle a new tick can always
\* start
NoTerminalState ==
  /\ pc[DUT] = "idle" =>
       /\ ENABLED Device(DUT)
       /\ Available(rx[DUT]) => ENABLED LoopReceive(DUT)
  /\ pc[DUT] = "reading" => ENABLED LoopReceive(DUT)
  /\ pc[DUT] = "decoded" => ENABLED MorseBlink(DUT)
  /\ pc[DUT] = "blinkOn" => ENABLED BlinkOff(DUT)
  /\ pc[DUT] = "blinkGap" => ENABLED BlinkDone(DUT)
  /\ pc[DUT] = "beep" => ENABLED BeepEnd(DUT)
  /\ pc[DUT] = "debounce" => ENABLED HoldClassify(DUT)
  /\ pc[DUT] = "polled" => ENABLED Send(DUT)
  /\ pc[DUT] = "hold" =>
       /\ button[DUT] = HIGH => ENABLED HoldExit(DUT)
       /\ button[DUT] = LOW => ENABLED Release(DUT)
  /\ ~ENABLED Device(DUT) => (pc[DUT] = "hold" /\ button[DUT] = LOW)

\* C12 as stated: every tick of loop() comes to its end, given only that a
\* held button is let go in the end (reads, renders and the dash beep are
\* bounded waits), and there is no terminal state.
C12_EveryTickEnds ==
  /\ (pc[DUT] # "idle") ~> (pc[DUT] = "idle")
  /\ []NoTerminalState

\* the channel lets every line end: it does not go on for ever delivering
\* bytes that are no '\n' to a read that waits
LinesEnd == <>[][~Flood(DUT)]_vars

\* C12 as amended: every tick of loop() comes to its end, given that a held
\* button is let go in the end and that the channel lets every line end;
\* there is no terminal state.
C12_NeverHalts ==
  /\ LinesEnd => ((pc[DUT] # "idle") ~> (pc[DUT] = "idle"))
  /\ []NoTerminalState

\* a read that found "2" went on waiting as two more bytes came, each in
\* time, and has ended on the timeout; the line is decoded as a DASH
C12_Witness ==
  /\ pc[DUT] = "decoded"
  /\ message[DUT] = <<"2", "a", "a">>
  /\ morseReceived[DUT] = 2
  /\ rx[DUT] = <<>>

\* C13: while a tick is in the receive branch the button is not read: no
\* step of such a tick touches the result of talkMorse(), the press time or
\* the link, whatever the button does meanwhile, and a tick that starts with
\* the button up detects no press, so a press that begins and ends inside a
\* render leaves no symbol and no transmission; the button is polled only by
\* a tick whose check found no inbound data and the device writes only in
\* such a tick, so a device that finds data at every check never polls and
\* never transmits.
C13_LocalInputStarved ==
  /\ [][/\ (tick[DUT].rx \/ tick'[DUT].rx) =>
             /\ morseToSend'[DUT] = morseToSend[DUT]
             /\ lastButtonPressTime'[DUT] = lastButtonPressTime[DUT]
             /\ hold'[DUT] = hold[DUT]
             /\ owed'[DUT] = owed[DUT]
             /\ ~Transmits(DUT)
        /\ (StartsTick(DUT) /\ button[DUT] = HIGH) =>
             /\ pc'[DUT] \in {"reading", "decoded", "polled"}
             /\ hold'[DUT] = NoHold
             /\ pc'[DUT] = "polled" => morseToSend'[DUT] = 0
        /\ (tick'[DUT].poll /\ ~tick[DUT].poll) =>
             (StartsTick(DUT) /\ ~Available(rx[DUT]))
        /\ hold'[DUT].pressed => tick'[DUT].poll
        /\ Transmits(DUT) => tick[DUT].poll]_vars
  /\ [](/\ tick[DUT].rx => (hold[DUT] = NoHold /\ ~tick[DUT].poll)
        /\ tick[DUT].press # "none" => tick[DUT].rx)

\* the button went down and up again during the gap of a render; nothing
\* has been detected or written
C13_Witness ==
  /\ pc[DUT] = "blinkGap"
  /\ tick[DUT].press = "done"
  /\ button[DUT] = HIGH
  /\ presses[DUT] = 1
  /\ lastButtonPressTime[DUT] = U32(0)
  /\ rx[Peer(DUT)] = <<>>

\* C14: in a build with the self-test enabled no press is ever detected by
\* talkMorse() and nothing is ever written to the link.
C14_JigExclusive ==
  jig[DUT] => (~hold[DUT].pressed /\ rx[Peer(DUT)] = <<>>)

\* C15: of two linked devices that differ in the role flag only and get the
\* same button levels and clock readings, the responder can always take the
\* step the initiator took, and is then in the initiator's state again:
\* same position, same LED and buzzer levels, same bytes written to the
\* link; no step of loop() changes the flag.
C15_RoleBlind ==
  /\ [][/\ ~InStep => InStep'
        /\ isInitiator' = isInitiator]_vars
  /\ [](/\ ~InStep => ENABLED Follow
        /\ isInitiator["A"] /\ ~isInitiator["B"])

\* initiator and responder have sent each other a DASH and both render it
C15_Witness ==
  /\ InStep
  /\ isInitiator["A"] # isInitiator["B"]
  /\ pc["B"] = "blinkOn"
  /\ morseReceived["B"] = 2
  /\ owed["A"] = <<2>>

\* C16: in every step in which a device writes a line to the link, its own
\* receive buffer holds no unread byte.
C16_HalfDuplexAtWrite ==
  [][\A d \in Dev : Transmits(d) => ~Available(rx[d])]_vars

\* no '\n' among the characters of s
NoLF(s) == \A i \in 1..Len(s) : s[i] # LF

\* the read of line 243 ends in this step
ReadEnds(d) == pc[d] \notin RxBranch \/ pc[d] = "reading"

\* C17 as stated: the read of every tick that finds inbound data takes a
\* line delimiter out of the receive buffer.
C17_DelimiterPerTick ==
  [][\A d \in Dev :
       (ReadEnds(d) /\ pc'[d] = "decoded") => FirstLF(rx[d], 1) # 0]_vars

\* C17 as amended: the read of a tick that finds inbound data takes from the
\* front of the receive buffer the characters before the first '\n' and that
\* '\n'; while the buffer holds no '\n' it takes all of it and goes on with
\* what comes next, and it ends with the first '\n' or, without one, when
\* nothing has come during the stream's timeout.  The tick decodes exactly
\* the characters taken, in order; what was behind the '\n' stays as it was,
\* in place and order, and no other step takes anything from the buffer, so
\* the lines behind are read one per tick in the order they came, none
\* twice, none skipped, none merged.
C17_OneLinePerTick ==
  [][\A d \in Dev :
       LET sofar == IF pc[d] = "reading" THEN message[d] ELSE <<>>
           reads == \/ StartsTick(d) /\ Available(rx[d])
                    \/ pc[d] = "main" /\ pc'[d] # "main" /\ Available(rx[d])
                    \/ pc[d] = "reading" /\ pc'[d] # "reading"
                    \/ pc[d] = "reading" /\ message'[d] # message[d]
       IN  /\ reads =>
                /\ NoLF(message'[d])
                /\ \/ /\ rx[d] = SubSeq(message'[d], Len(sofar) + 1,
                                         Len(message'[d])) \o <<LF>> \o rx'[d]
                      /\ SubSeq(message'[d], 1, Len(sofar)) = sofar
                      /\ pc'[d] = "decoded"
                   \/ /\ NoLF(rx[d]) /\ rx'[d] = <<>>
                      /\ message'[d] = sofar \o rx[d]
                      /\ pc'[d] = IF rx[d] = <<>> THEN "decoded" ELSE "reading"
                /\ pc'[d] = "decoded" =>
                     morseReceived'[d] = LongToInt(ToInt(message'[d]))
           /\ Len(rx'[d]) < Len(rx[d]) => reads
           /\ Len(rx'[d]) >= Len(rx[d]) =>
                SubSeq(rx'[d], 1, Len(rx[d])) = rx[d]
           /\ (pc[d] \in RxBranch \ {"reading"} /\ pc'[d] \in RxBranch) =>
                (message'[d] = message[d]
                   /\ morseReceived'[d] = morseReceived[d])
    ]_vars

\* the line "2\r" has been read and decoded; the line "1\r\n" that came
\* behind it waits in the buffer
C17_Witness ==
  /\ pc[DUT] = "decoded"
  /\ message[DUT] = <<"2", CR>>
  /\ morseReceived[DUT] = 2
  /\ rx[DUT] = <<"1", CR, LF>>

\* C18: in normal operation LED and buzzer are both off whenever loop() is
\* about to start a tick; the LED is on only during the first delay of
\* blink(), that is while a received value of 1 or 2 is rendered, and never
\* in the poll branch; the buzzer is on only then and during the dash beep
\* of a hold.
C18_QuietAtIdle ==
  \A d \in Dev :
    /\ pc[d] = "idle" => (led[d] = LOW /\ buzzer[d] = LOW)
    /\ led[d] = HIGH =>
         (pc[d] = "blinkOn" /\ tick[d].rx /\ morseReceived[d] \in {1, 2})
    /\ buzzer[d] = HIGH => pc[d] \in {"blinkOn", "beep"}
    /\ (buzzer[d] = HIGH /\ pc[d] = "beep") =>
         (button[d] = LOW \/ hold[d].pressed) /\ led[d] = LOW
    /\ tick[d].poll => led[d] = LOW

\* the dash beep of a local press sounds and the LED stays dark
C18_Witness ==
  /\ pc[DUT] = "beep"
  /\ buzzer[DUT] = HIGH
  /\ led[DUT] = LOW
  /\ button[DUT] = LOW

\* millis() has passed its maximum since the press of device d was detected
Wrapped(d) ==
  LET now == Millis(d, elapsed[d]) IN
    now.hi < pressClock[d].hi
      \/ (now.hi = pressClock[d].hi /\ now.lo < pressClock[d].lo)

\* C19: at every point of a hold the difference millis() -
\* lastButtonPressTime is the time that has passed since the press was
\* detected, also when millis() has wrapped around in between; it is a
\* value of 0 .. 2^32 - 1, never negative; and the press is classified by
\* that time alone, as a press of the same length that starts at any other
\* reading of millis().
C19_WrapSafe ==
  \A d \in Dev :
    LET measured == USub(Millis(d, elapsed[d]), lastButtonPressTime[d]) IN
      /\ pc[d] \in PollBranch =>
           /\ hold[d].pressed => measured = U32(elapsed[d])
           /\ measured.hi \in 0..(Half - 1)
           /\ measured.lo \in 0..(Half - 1)
      /\ PressCompleted(d) => morseToSend[d] = Classify(U32(elapsed[d]))

\* a hold that began 500 ms before millis() wrapped around and lasted
\* 1600 ms has been classified DASH
C19_Witness ==
  /\ PressCompleted(DUT)
  /\ Wrapped(DUT)
  /\ hold[DUT].d = 1600
  /\ morseToSend[DUT] = 2

=============================================================================
